---- MODULE Spec2Model ----
(***************************************************************************)
(* Model of paperless-ngx's document_exporter and document_importer        *)
(* management commands: the export run (snapshot, file name allocation,    *)
(* payload synchronisation, manifest writing, pruning) and the import run  *)
(* (manifest validation, bulk load, payload restoration).                  *)
(*                                                                         *)
(* A path below the export directory is a sequence of components, the last *)
(* one the file name; names are strings, built by concatenation as the     *)
(* code builds them.  A payload's content is a natural number: its md5 is  *)
(* the number itself and its size the number modulo 100, so that two       *)
(* contents may share a size but never a hash.                             *)
(***************************************************************************)
EXTENDS Integers, Sequences, FiniteSets, Bags, TLC

\* Number of document ids of the record store.
MaxDocs == 2
\* Number of command invocations (export or import runs) in a behaviour.
MaxRuns == 2
\* Number of changes made to the record store and media directory between runs.
MaxEdits == 1
\* Number of files put at a canonical path in front of an import.
MaxPlanted == 1
\* Number of changes made to an export directory in front of an import.
MaxDamage == 1
\* Number of command invocations that run step by step, side by side.
MaxCommands == 2
\* The variation budget of the stores these invocations start from.
MaxVarHandle == 2
\* Number of ways the initial store and options differ from the plain ones
\* (a document's name, storage or archive, a comment, an option switched on).
MaxVar == 3

VARIABLES
    docs,       \* record store: document id -> Document row (DOMAIN = ids present)
    comments,   \* record store: ids of the documents that carry a Comment row
    media,      \* media directory: [id -> [kind -> source payload file]]
    fs,         \* export directory: path -> file (DOMAIN = regular files present)
    dirs,       \* export directory: set of sub-directories present
    cfg,        \* command line options held constant over the behaviour
    run,        \* report of the latest export run: what it did, and what came before
    edits,      \* changes made to store and media since the latest run ended
    nruns,      \* runs so far
    nedits,     \* edits so far
    saved,      \* store and media as they were when they were emptied
    imp,        \* report of the import run
    lock,       \* settings.MEDIA_LOCK: the command that holds it, or 0
    target_dir, \* the export directory itself: does it exist, is it writable
    cmds,       \* the command invocations made step by step, in the order started
    staging     \* temporary directories of --zip: command -> its files and directories

\* What the handle() of a command sees besides the store and the directories.
handleVars == <<lock, target_dir, cmds, staging>>

vars == <<docs, comments, media, fs, dirs, cfg, run, edits, nruns, nedits,
          saved, imp, lock, target_dir, cmds, staging>>

DocIds == 1..MaxDocs
Kinds == {"original", "thumbnail", "archive"}

STORAGE_TYPE_UNENCRYPTED == "unencrypted"
STORAGE_TYPE_GPG == "gpg"

\* (title, file type) pairs a Document may have.  The second one makes the public
\* file name of a document equal to the thumbnail name derived from the first.
NameKeys ==
    { [title |-> "a", ftype |-> ".pdf"],
      [title |-> "a.pdf-thumbnail", ftype |-> ".webp"] }

----------------------------------------------------------------------------
(* Payload files *)

NoFile == [exists |-> FALSE, content |-> 0, mtime |-> 0]
SrcFile(c, t) == [exists |-> TRUE, content |-> c, mtime |-> t]

Md5(content) == content
Size(content) == content % 100

\* GnuPG: the stored payload of an encrypted document is the ciphertext.
Encrypted(plain) == plain + 500
Decrypted(cipher) == cipher - 500

\* The plaintext a freshly consumed document d has for payload kind k.
KindNo(k) == CASE k = "original" -> 1 [] k = "thumbnail" -> 2 [] k = "archive" -> 3
PlainOf(d, k) == 10 * d + KindNo(k)

----------------------------------------------------------------------------
(* Paths *)

\* os.path.join(self.target, name): absolute exactly when the target is.
JoinTarget(target, name) == [abs |-> target.abs, p |-> name]
\* os.path.abspath(path)
AbsPath(path) == [abs |-> TRUE, p |-> path.p]
\* os.path.dirname, as the set of directories os.makedirs has to provide.
AncestorDirs(p) == { SubSeq(p, 1, i) : i \in 1..(Len(p) - 1) }
\* name + suffix: the suffix goes to the last component.
AddSuffix(name, suffix) == [name EXCEPT ![Len(name)] = @ \o suffix]

\* f"_{counter:02}" when the counter is not zero.
CounterStr(counter) ==
    IF counter = 0 THEN ""
    ELSE IF counter < 10 THEN "_0" \o ToString(counter)
    ELSE "_" \o ToString(counter)

\* Document.get_public_filename(counter): one flat file name.
get_public_filename(document, counter) ==
    << document.title \o CounterStr(counter) \o document.ftype >>

\* generate_filename(document, counter, append_gpg=False) under
\* FILENAME_FORMAT = "{title}/{correspondent}", the document having no correspondent.
generate_filename(document, counter) ==
    << document.title, "none" \o CounterStr(counter) \o document.ftype >>

----------------------------------------------------------------------------
(* Command.check_and_copy *)

\* The run state an export threads through its steps.  error = "" while no
\* exception has been raised.
Raise(rs, exc) == [rs EXCEPT !.error = exc]

\* list.remove(x) guarded by "x in list": one occurrence goes.
Claim(files_in_export_dir, path) ==
    IF BagIn(path, files_in_export_dir)
    THEN files_in_export_dir (-) SetToBag({path})
    ELSE files_in_export_dir

\* os.makedirs(os.path.dirname(target), exist_ok=True)
MakeDirs(rs, p) ==
    IF \E a \in AncestorDirs(p) : a \in DOMAIN rs.fs
    THEN Raise(rs, "FileExistsError")
    ELSE [rs EXCEPT !.dirs = @ \cup AncestorDirs(p)]

\* fs with file p written
PutFile(files, p, file) ==
    [q \in DOMAIN files \cup {p} |-> IF q = p THEN file ELSE files[q]]

ExportFile(c, t) == [content |-> c, mtime |-> t, entries |-> <<>>]

\* shutil.copy2(source, target): content and modification time.  The call is
\* recorded whether or not it succeeds.  (No name of the model makes a target
\* an existing directory.)
Copy2(rs, source, p, who) ==
    LET called == [rs EXCEPT !.copies = Append(@, who)]
    IN  IF ~source.exists THEN Raise(called, "FileNotFoundError")
        ELSE [called EXCEPT
                !.fs = PutFile(@, p, ExportFile(source.content, source.mtime))]

\* (mutant) with --compare-checksums the hash decides, whatever the checksum
PerformCopy_HashOnly(rs, o, source, source_checksum, p) ==
    IF o.compare_checksums
    THEN Md5(rs.fs[p].content) # source_checksum
    ELSE \/ source.mtime # rs.fs[p].mtime
         \/ Size(source.content) # Size(rs.fs[p].content)

\* (mutant) with --compare-checksums and no checksum an existing target is kept
PerformCopy_ExistenceOnly(rs, o, source, source_checksum, p) ==
    IF o.compare_checksums
    THEN source_checksum # 0 /\ Md5(rs.fs[p].content) # source_checksum
    ELSE \/ source.mtime # rs.fs[p].mtime
         \/ Size(source.content) # Size(rs.fs[p].content)

\* perform_copy for an existing target
PerformCopy(rs, o, source, source_checksum, p) ==
    IF o.compare_checksums /\ source_checksum # 0
    THEN Md5(rs.fs[p].content) # source_checksum
    ELSE \/ source.mtime # rs.fs[p].mtime
         \/ Size(source.content) # Size(rs.fs[p].content)

\* (mutant) a payload whose source is missing is skipped
check_and_copy_SkipMissing(rs, o, source, source_checksum, target, who) ==
    LET claimed == [rs EXCEPT !.files_in_export_dir = Claim(@, AbsPath(target))]
        p == target.p
    IN  IF ~source.exists THEN claimed
        ELSE IF p \in DOMAIN claimed.fs
                /\ ~PerformCopy(claimed, o, source, source_checksum, p)
        THEN claimed
        ELSE Copy2(MakeDirs(claimed, p), source, p, who)

\* The decision of check_and_copy, noted in the run state: what it looked at
\* and the value perform_copy ends with.
Checked(rs, who, present, target_file, source, source_checksum, perform_copy) ==
    [rs EXCEPT !.checks = Append(@, [ who |-> who, present |-> present,
                                      target |-> target_file, source |-> source,
                                      checksum |-> source_checksum,
                                      perform_copy |-> perform_copy ])]

check_and_copy(rs, o, source, source_checksum, target, who) ==
    LET claimed == [rs EXCEPT !.files_in_export_dir = Claim(@, AbsPath(target))]
        p == target.p
    IN  IF p \in DOMAIN claimed.fs
        THEN IF ~source.exists
             THEN Raise(claimed, "FileNotFoundError")     \* os.stat(source)
             ELSE LET perform_copy == PerformCopy(claimed, o, source, source_checksum, p)
                      decided == Checked(claimed, who, TRUE, claimed.fs[p], source,
                                         source_checksum, perform_copy)
                  IN  IF perform_copy
                      THEN LET made == MakeDirs(decided, p)
                           IN  IF made.error # "" THEN made
                               ELSE Copy2(made, source, p, who)
                      ELSE decided
        ELSE LET decided == Checked(claimed, who, FALSE, ExportFile(0, 0), source,
                                    source_checksum, TRUE)
                 made == MakeDirs(decided, p)
             IN  IF made.error # "" THEN made ELSE Copy2(made, source, p, who)

----------------------------------------------------------------------------
(* Command.dump, step 3: one document *)

\* (mutant) the candidate is taken without looking at self.exported_files
UniqueName_Unchecked(o, document, filename_counter, exported_files) ==
    [ base_name |-> IF o.use_filename_format
                    THEN generate_filename(document, filename_counter)
                    ELSE get_public_filename(document, filename_counter),
      counter |-> filename_counter ]

\* 3.2: the first candidate not in self.exported_files
RECURSIVE UniqueName(_, _, _, _)
UniqueName(o, document, filename_counter, exported_files) ==
    LET base_name == IF o.use_filename_format
                     THEN generate_filename(document, filename_counter)
                     ELSE get_public_filename(document, filename_counter)
    IN  IF \A i \in DOMAIN exported_files : exported_files[i] # base_name
        THEN [base_name |-> base_name, counter |-> filename_counter]
        ELSE UniqueName(o, document, filename_counter + 1, exported_files)

NoName == << >>
Prefixed(o, dir, name) == IF o.use_filename_prefix THEN <<dir>> \o name ELSE name

original_name(o, base_name) == Prefixed(o, "originals", base_name)
thumbnail_name(o, base_name) ==
    IF ~o.no_thumbnail
    THEN Prefixed(o, "thumbnails", AddSuffix(base_name, "-thumbnail.webp"))
    ELSE NoName
archive_name(o, document, base_name) ==
    IF ~o.no_archive /\ document.has_archive_version
    THEN Prefixed(o, "archive", AddSuffix(base_name, "-archive.pdf"))
    ELSE NoName
manifest_name(o, base_name) ==
    Prefixed(o, "json", AddSuffix(base_name, "-manifest.json"))

\* (mutant) the entry keeps the storage type the store has
DocumentDict_Raw(o, pk, document, base_name) ==
    [ model |-> "documents.document",
      pk |-> pk,
      fields |-> document,
      EXPORTER_FILE_NAME |-> original_name(o, base_name),
      EXPORTER_THUMBNAIL_NAME |-> thumbnail_name(o, base_name),
      EXPORTER_ARCHIVE_NAME |-> archive_name(o, document, base_name) ]

\* The serialized Document with the exporter's keys; a key that is absent is NoName.
DocumentDict(o, pk, document, base_name) ==
    [ model |-> "documents.document",
      pk |-> pk,
      fields |-> [document EXCEPT !.storage_type = STORAGE_TYPE_UNENCRYPTED],
      EXPORTER_FILE_NAME |-> original_name(o, base_name),
      EXPORTER_THUMBNAIL_NAME |-> thumbnail_name(o, base_name),
      EXPORTER_ARCHIVE_NAME |-> archive_name(o, document, base_name) ]

\* 3.4, encrypted storage: open(target, "wb") truncates the target, then the
\* source is opened, decrypted and written, and the time set to the creation time.
WriteDecrypted(rs, source, p, t) ==
    IF rs.error # "" THEN rs
    ELSE LET made == MakeDirs(rs, p)
         IN  IF made.error # "" THEN made
             ELSE IF ~source.exists
             THEN Raise([made EXCEPT !.fs = PutFile(@, p, ExportFile(0, 0))],
                        "FileNotFoundError")
             ELSE [made EXCEPT
                     !.fs = PutFile(@, p, ExportFile(Decrypted(source.content), t))]

\* 3.4, encrypted storage, archive: "with document.archive_path as out_file".
\* archive_path is the path check_and_copy is given for a plain document
\* (os.stat and shutil.copy2 take it), not an open file: entering it raises,
\* after open(archive_target, "wb") has created the target.
WriteDecryptedArchive(rs, p) ==
    IF rs.error # "" THEN rs
    ELSE LET made == MakeDirs(rs, p)
         IN  IF made.error # "" THEN made
             ELSE Raise([made EXCEPT !.fs = PutFile(@, p, ExportFile(0, 0))],
                        "AttributeError")

CopyIf(rs, o, wanted, source, source_checksum, target, who) ==
    IF rs.error # "" \/ ~wanted THEN rs
    ELSE check_and_copy(rs, o, source, source_checksum, target, who)

\* json.dump(entries, f): the file written, and the write noted in the run state
WriteManifestFile(rs, p, entries) ==
    [rs EXCEPT !.fs = PutFile(@, p, [content |-> 0, mtime |-> 0, entries |-> entries]),
               !.manifests = Append(@, [p |-> p, entries |-> entries])]

\* the "if self.split_manifest" block
WriteDocumentManifest(rs, o, base_name, document_dict) ==
    IF rs.error # "" \/ ~o.split_manifest THEN rs
    ELSE LET name == JoinTarget(o.target, manifest_name(o, base_name))
             claimed == [rs EXCEPT !.files_in_export_dir = Claim(@, name)]
             made == MakeDirs(claimed, name.p)
         IN  IF made.error # "" THEN made
             ELSE WriteManifestFile(made, name.p, <<document_dict>>)

ExportDocument(rs, o, pk, document, files) ==
    LET unique == UniqueName(o, document, 0, rs.exported_files)
        base_name == unique.base_name
        document_dict == DocumentDict(o, pk, document, base_name)
        original_target == JoinTarget(o.target, document_dict.EXPORTER_FILE_NAME)
        thumbnail_target == JoinTarget(o.target, document_dict.EXPORTER_THUMBNAIL_NAME)
        archive_target == JoinTarget(o.target, document_dict.EXPORTER_ARCHIVE_NAME)
        named == [rs EXCEPT !.exported_files = Append(@, base_name),
                            !.processed = Append(@, pk),
                            !.counters = Append(@, unique.counter),
                            !.document_manifest = Append(@, document_dict)]
        t == document.created
        written ==
            IF document.storage_type = STORAGE_TYPE_GPG
            THEN LET w1 == WriteDecrypted(named, files["original"], original_target.p, t)
                     w2 == IF thumbnail_target.p # NoName
                           THEN WriteDecrypted(w1, files["thumbnail"], thumbnail_target.p, t)
                           ELSE w1
                 IN  IF archive_target.p # NoName
                     THEN WriteDecryptedArchive(w2, archive_target.p)
                     ELSE w2
            ELSE LET c1 == check_and_copy(named, o, files["original"], document.checksum,
                                          original_target, <<pk, "original">>)
                     c2 == CopyIf(c1, o, thumbnail_target.p # NoName, files["thumbnail"],
                                  0, thumbnail_target, <<pk, "thumbnail">>)
                 IN  CopyIf(c2, o, archive_target.p # NoName, files["archive"],
                            document.archive_checksum, archive_target, <<pk, "archive">>)
    IN  WriteDocumentManifest(written, o, base_name, document_dict)

----------------------------------------------------------------------------
(* Command.dump *)

\* 1. os.walk(self.target): the absolute path of every file below the target
Snapshot(files) == SetToBag({ [abs |-> TRUE, p |-> f] : f \in DOMAIN files })

Min(S) == CHOOSE x \in S : \A y \in S : x <= y

Max(S) == CHOOSE x \in S : \A y \in S : x >= y

\* (mutant) the loop takes the documents by descending id
RECURSIVE ExportDocuments_Descending(_, _, _, _, _)
ExportDocuments_Descending(rs, o, ids, documents, payloads) ==
    IF ids = {} \/ rs.error # "" THEN rs
    ELSE LET pk == Max(ids)
         IN  ExportDocuments_Descending(
                 ExportDocument(rs, o, pk, documents[pk], payloads[pk]),
                 o, ids \ {pk}, documents, payloads)

\* 3. the loop over Document.objects.order_by("id"); an exception ends it
RECURSIVE ExportDocuments(_, _, _, _, _)
ExportDocuments(rs, o, ids, documents, payloads) ==
    IF ids = {} \/ rs.error # "" THEN rs
    ELSE LET pk == Min(ids)
         IN  ExportDocuments(ExportDocument(rs, o, pk, documents[pk], payloads[pk]),
                             o, ids \ {pk}, documents, payloads)

\* file_handling.delete_empty_directories(directory, root): remove the directory
\* and then its parents while they are empty, up to the root (the empty path).
RECURSIVE delete_empty_directories(_, _, _)
delete_empty_directories(files, directories, directory) ==
    IF directory = << >> \/ directory \notin directories THEN directories
    ELSE IF \E q \in DOMAIN files \cup directories :
                Len(q) > Len(directory) /\ SubSeq(q, 1, Len(directory)) = directory
         THEN directories
         ELSE delete_empty_directories(files, directories \ {directory},
                                       SubSeq(directory, 1, Len(directory) - 1))

RemoveFile(files, p) == [q \in DOMAIN files \ {p} |-> files[q]]

\* (mutant) the files are removed and the directories left as they are
RECURSIVE RemoveStale_FilesOnly(_, _)
RemoveStale_FilesOnly(rs, stale) ==
    IF stale = EmptyBag \/ rs.error # "" THEN rs
    ELSE LET f == CHOOSE x \in BagToSet(stale) : TRUE
         IN  IF f.p \notin DOMAIN rs.fs
             THEN Raise(rs, "FileNotFoundError")
             ELSE RemoveStale_FilesOnly(
                      [rs EXCEPT !.fs = RemoveFile(rs.fs, f.p),
                                 !.removed = @ \cup {f.p}],
                      stale (-) SetToBag({f}))

\* 5. for f in self.files_in_export_dir: os.remove(f); delete_empty_directories(...)
RECURSIVE RemoveStale(_, _)
RemoveStale(rs, stale) ==
    IF stale = EmptyBag \/ rs.error # "" THEN rs
    ELSE LET f == CHOOSE x \in BagToSet(stale) : TRUE
         IN  IF f.p \notin DOMAIN rs.fs
             THEN Raise(rs, "FileNotFoundError")          \* os.remove(f)
             ELSE LET files == RemoveFile(rs.fs, f.p)
                      removed ==
                        [rs EXCEPT
                           !.fs = files,
                           !.removed = @ \cup {f.p},
                           !.dirs = delete_empty_directories(
                                        files, @, SubSeq(f.p, 1, Len(f.p) - 1))]
                  IN  RemoveStale(removed, stale (-) SetToBag({f}))

CommentDict(pk) == [model |-> "documents.comment", pk |-> pk, document |-> pk]

\* 2. the manifest without the documents: the auxiliary entities
RECURSIVE AuxManifest(_)
AuxManifest(commented) ==
    IF commented = {} THEN << >>
    ELSE <<CommentDict(Min(commented))>> \o AuxManifest(commented \ {Min(commented)})

\* (mutant) the manifest and the version are written after a failed loop too
WriteManifests_AfterFailure(rs, o, aux) ==
    LET manifest_path == AbsPath(JoinTarget(o.target, <<"manifest.json">>))
        version_path == AbsPath(JoinTarget(o.target, <<"version.json">>))
        manifest == IF o.split_manifest THEN aux ELSE aux \o rs.document_manifest
        m == WriteManifestFile(
               [rs EXCEPT !.files_in_export_dir = Claim(@, manifest_path)],
               manifest_path.p, manifest)
        v == WriteManifestFile(
               [m EXCEPT !.files_in_export_dir = Claim(@, version_path)],
               version_path.p, <<[version |-> "1"]>>)
    IN  [v EXCEPT !.manifest_written = TRUE]

\* (mutant) the documents go into manifest.json in split mode too
WriteManifests_WithDocuments(rs, o, aux) ==
    IF rs.error # "" THEN rs
    ELSE LET manifest_path == AbsPath(JoinTarget(o.target, <<"manifest.json">>))
             version_path == AbsPath(JoinTarget(o.target, <<"version.json">>))
             m == WriteManifestFile(
                    [rs EXCEPT !.files_in_export_dir = Claim(@, manifest_path)],
                    manifest_path.p, aux \o rs.document_manifest)
             v == WriteManifestFile(
                    [m EXCEPT !.files_in_export_dir = Claim(@, version_path)],
                    version_path.p, <<[version |-> "1"]>>)
         IN  [v EXCEPT !.manifest_written = TRUE]

\* 4.1 and 4.2: manifest.json and version.json
WriteManifests(rs, o, aux) ==
    IF rs.error # "" THEN rs
    ELSE LET manifest_path == AbsPath(JoinTarget(o.target, <<"manifest.json">>))
             version_path == AbsPath(JoinTarget(o.target, <<"version.json">>))
             manifest == IF o.split_manifest THEN aux ELSE aux \o rs.document_manifest
             m == WriteManifestFile(
                    [rs EXCEPT !.files_in_export_dir = Claim(@, manifest_path)],
                    manifest_path.p, manifest)
             v == WriteManifestFile(
                    [m EXCEPT !.files_in_export_dir = Claim(@, version_path)],
                    version_path.p, <<[version |-> "1"]>>)
         IN  [v EXCEPT !.manifest_written = TRUE]

\* A Command object as __init__ leaves it, in front of the export directory.
NewCommand(files, directories) ==
    [ fs |-> files, dirs |-> directories,
      files_in_export_dir |-> EmptyBag, exported_files |-> << >>,
      copies |-> << >>, checks |-> << >>, manifests |-> << >>,
      processed |-> << >>, counters |-> << >>,
      document_manifest |-> << >>, removed |-> {},
      manifest_written |-> FALSE, error |-> "" ]

\* (mutant) step 5 runs whether or not --delete is given
dump_AlwaysDelete(command, o, documents, commented, payloads) ==
    LET scanned == [command EXCEPT
                      !.files_in_export_dir = @ (+) Snapshot(command.fs)]
        exported == ExportDocuments(scanned, o, DOMAIN documents, documents, payloads)
        written == WriteManifests(exported, o, AuxManifest(commented))
    IN  IF written.error = ""
        THEN RemoveStale(written, written.files_in_export_dir)
        ELSE written

dump(command, o, documents, commented, payloads) ==
    LET scanned == [command EXCEPT
                      !.files_in_export_dir = @ (+) Snapshot(command.fs)]
        exported == ExportDocuments(scanned, o, DOMAIN documents, documents, payloads)
        written == WriteManifests(exported, o, AuxManifest(commented))
    IN  IF written.error = "" /\ o.delete
        THEN RemoveStale(written, written.files_in_export_dir)
        ELSE written

----------------------------------------------------------------------------
(* The record store and the media directory *)

\* A Document as the consumer stores it: the checksums are those of its payloads.
NewDocument(d, key, storage_type, has_archive_version) ==
    [ title |-> key.title, ftype |-> key.ftype,
      storage_type |-> storage_type,
      has_archive_version |-> has_archive_version,
      checksum |-> Md5(PlainOf(d, "original")),
      archive_checksum |->
          IF has_archive_version THEN Md5(PlainOf(d, "archive")) ELSE 0,
      created |-> 1 ]

Stored(document, plain) ==
    IF document.storage_type = STORAGE_TYPE_GPG THEN Encrypted(plain) ELSE plain

NewPayloads(d, document) ==
    [ k \in Kinds |->
        IF k = "archive" /\ ~document.has_archive_version THEN NoFile
        ELSE SrcFile(Stored(document, PlainOf(d, k)), 1) ]

NoPayloads == [k \in Kinds |-> NoFile]

Configs ==
    [ split_manifest : BOOLEAN, use_filename_format : BOOLEAN,
      use_filename_prefix : BOOLEAN, no_archive : BOOLEAN, no_thumbnail : BOOLEAN,
      target : {[abs |-> TRUE], [abs |-> FALSE]} ]

\* self.* after handle() has read the options
Options(config, compare_checksums, delete) ==
    [ target |-> config.target,
      split_manifest |-> config.split_manifest,
      compare_checksums |-> compare_checksums,
      use_filename_format |-> config.use_filename_format,
      use_filename_prefix |-> config.use_filename_prefix,
      delete |-> delete,
      no_archive |-> config.no_archive,
      no_thumbnail |-> config.no_thumbnail ]

NoRun == [status |-> "none", n |-> 0]
NoImport == [status |-> "none"]
NotSaved == [status |-> "none"]

B2N(b) == IF b THEN 1 ELSE 0
PlainKey == [title |-> "a", ftype |-> ".pdf"]

\* How far a store and a configuration are from the plain ones.
Variation(keys, storage, archived, commented, config) ==
    Cardinality({d \in DocIds : keys[d] # PlainKey})
    + Cardinality({d \in DocIds : storage[d] = STORAGE_TYPE_GPG})
    + Cardinality({d \in DocIds : archived[d]})
    + Cardinality(commented)
    + B2N(config.split_manifest) + B2N(config.use_filename_format)
    + B2N(config.use_filename_prefix) + B2N(config.no_archive)
    + B2N(config.no_thumbnail) + B2N(~config.target.abs)

NoFiles == [q \in {} |-> NoFile]

Init ==
    /\ \E keys \in [DocIds -> NameKeys],
          storage \in [DocIds -> {STORAGE_TYPE_UNENCRYPTED, STORAGE_TYPE_GPG}],
          archived \in [DocIds -> BOOLEAN],
          commented \in SUBSET DocIds,
          config \in Configs :
          /\ Variation(keys, storage, archived, commented, config) <= MaxVar
          /\ docs = [d \in DocIds |-> NewDocument(d, keys[d], storage[d], archived[d])]
          /\ media = [d \in DocIds |->
                        NewPayloads(d, NewDocument(d, keys[d], storage[d], archived[d]))]
          /\ comments = commented
          /\ cfg = config
    /\ fs = NoFiles
    /\ dirs = {}
    /\ run = NoRun
    /\ edits = << >>
    /\ nruns = 0
    /\ nedits = 0
    /\ saved = NotSaved
    /\ imp = NoImport
    /\ lock = 0
    /\ target_dir = [exists |-> TRUE, writable |-> TRUE]
    /\ cmds = << >>
    /\ staging = << >>

----------------------------------------------------------------------------
(* Changes to the store and the media directory, made between runs *)

\* An edit is followed by a run: none is made once the runs are used up.
Edited(e) ==
    /\ nedits < MaxEdits
    /\ nruns < MaxRuns
    /\ nedits' = nedits + 1
    /\ edits' = Append(edits, e)
    /\ UNCHANGED <<fs, dirs, cfg, run, nruns, saved, imp>>
    /\ UNCHANGED handleVars

\* Document.delete(): the row, its comments and its files go.
DeleteDocument(d) ==
    /\ d \in DOMAIN docs
    /\ docs' = [x \in DOMAIN docs \ {d} |-> docs[x]]
    /\ comments' = comments \ {d}
    /\ media' = [media EXCEPT ![d] = NoPayloads]
    /\ Edited([op |-> "delete", doc |-> d])

\* document.checksum = value; document.save()
SetChecksum(d, value) ==
    /\ d \in DOMAIN docs
    /\ value # docs[d].checksum
    /\ docs' = [docs EXCEPT ![d].checksum = value]
    /\ UNCHANGED <<comments, media>>
    /\ Edited([op |-> "checksum", doc |-> d])

\* Path(payload).touch()
TouchSource(d, k) ==
    /\ media[d][k].exists
    /\ media' = [media EXCEPT ![d][k].mtime = @ + 1]
    /\ UNCHANGED <<docs, comments>>
    /\ Edited([op |-> "touch", doc |-> d, kind |-> k])

\* a payload file disappears from the media directory
RemoveSource(d, k) ==
    /\ media[d][k].exists
    /\ media' = [media EXCEPT ![d][k] = NoFile]
    /\ UNCHANGED <<docs, comments>>
    /\ Edited([op |-> "remove", doc |-> d, kind |-> k])

Edit ==
    \E d \in DocIds :
        \/ DeleteDocument(d)
        \/ \E value \in {0, 999} : SetChecksum(d, value)
        \/ \E k \in Kinds : TouchSource(d, k)
        \/ \E k \in Kinds : RemoveSource(d, k)

----------------------------------------------------------------------------
(* document_exporter: Command.handle *)

\* call_command("document_exporter", target, ...): a new Command object, the
\* options read, and dump() under the media lock, from the taking of the lock
\* to its release. The target exists and is writable, and --zip is not given.
Export(compare_checksums, delete) ==
    /\ nruns < MaxRuns
    /\ target_dir.exists /\ target_dir.writable
    /\ lock = 0
    /\ \E o \in {Options(cfg, compare_checksums, delete)} :
       \E done \in {dump(NewCommand(fs, dirs), o, docs, comments, media)} :
           /\ fs' = done.fs
           /\ dirs' = done.dirs
           /\ run' = [ status |-> IF done.error = "" THEN "ok" ELSE done.error,
                       n |-> nruns + 1,
                       o |-> o,
                       copies |-> done.copies,
                       checks |-> done.checks,
                       manifests |-> done.manifests,
                       processed |-> done.processed,
                       counters |-> done.counters,
                       exported_files |-> done.exported_files,
                       document_manifest |-> done.document_manifest,
                       stale |-> BagToSet(done.files_in_export_dir),
                       removed |-> done.removed,
                       manifest_written |-> done.manifest_written,
                       before |-> [ status |-> run.status, edits |-> edits,
                                    o |-> IF run.status = "none" THEN o ELSE run.o ] ]
    /\ edits' = << >>
    /\ nruns' = nruns + 1
    /\ UNCHANGED <<docs, comments, media, cfg, nedits, saved, imp>>
    /\ UNCHANGED handleVars

Next ==
    \/ Edit
    \/ \E compare_checksums \in BOOLEAN, delete \in BOOLEAN :
          Export(compare_checksums, delete)

Spec == Init /\ [][Next]_vars

----------------------------------------------------------------------------
(* Properties of the export run *)

\* A step that is an export run: its report is new.
ExportStep == run' # run

EntryPath(entry, k) ==
    CASE k = "original" -> entry.EXPORTER_FILE_NAME
      [] k = "thumbnail" -> entry.EXPORTER_THUMBNAIL_NAME
      [] k = "archive" -> entry.EXPORTER_ARCHIVE_NAME

\* The payload files a manifest entry names.
EntryPaths(entry) == { EntryPath(entry, k) : k \in Kinds } \ {NoName}

StrategyName(o, fields, counter) ==
    IF o.use_filename_format THEN generate_filename(fields, counter)
    ELSE get_public_filename(fields, counter)

(* C3: within one export run the documents are named in ascending id, the names
   are pairwise distinct, each document gets the candidate of the smallest
   counter, from 0, that no earlier document of the run was given, and when all
   documents ask for the same name the k-th gets counter k-1. *)
C3_CollisionFreedom ==
    run.status # "none" =>
        LET n == Len(run.processed)
            names == run.exported_files
            fields(k) == run.document_manifest[k].fields
        IN  /\ Len(names) = n /\ Len(run.counters) = n
            /\ \A i, j \in 1..n :
                  i < j => /\ names[i] # names[j]
                           /\ run.processed[i] < run.processed[j]
            /\ \A k \in 1..n :
                  /\ names[k] = StrategyName(run.o, fields(k), run.counters[k])
                  /\ \A c \in 0..(run.counters[k] - 1) :
                        \E i \in 1..(k - 1) :
                            names[i] = StrategyName(run.o, fields(k), c)
            /\ (\A i, j \in 1..n :
                    /\ fields(i).title = fields(j).title
                    /\ fields(i).ftype = fields(j).ftype)
               => \A k \in 1..n : run.counters[k] = k - 1

C3_Witness ==
    /\ run.status = "ok"
    /\ Len(run.counters) = MaxDocs
    /\ \A k \in 1..MaxDocs : run.counters[k] = k - 1

(* C5: an export run without --delete removes no file and no directory of the
   export directory, whether it succeeds or fails. *)
C5_NoDeleteKeepsEverything ==
    [][ (ExportStep /\ ~run'.o.delete)
            => (DOMAIN fs \subseteq DOMAIN fs' /\ dirs \subseteq dirs') ]_vars

\* A run without --delete after a document was deleted: its files are still there.
C5_Witness ==
    /\ run.status = "ok"
    /\ ~run.o.delete
    /\ run.before.status = "ok"
    /\ \E i \in DOMAIN run.before.edits : run.before.edits[i].op = "delete"
    /\ run.stale # {}
    /\ \A f \in run.stale : f.p \in DOMAIN fs

(* C9: after a successful export every original, thumbnail and archive path of
   a document entry names a file of the export directory. *)
C9_ManifestPathsExist ==
    run.status = "ok" =>
        \A i \in DOMAIN run.document_manifest :
            EntryPaths(run.document_manifest[i]) \subseteq DOMAIN fs

\* The kinds the run exports for a document.
ExportedKinds(o, document) ==
    {"original"}
    \cup (IF ~o.no_thumbnail THEN {"thumbnail"} ELSE {})
    \cup (IF ~o.no_archive /\ document.has_archive_version THEN {"archive"} ELSE {})

\* The plain documents of the store with an exported payload missing.
MissingPlain(o) ==
    { d \in DOMAIN docs :
        /\ docs[d].storage_type = STORAGE_TYPE_UNENCRYPTED
        /\ \E k \in ExportedKinds(o, docs[d]) : ~media[d][k].exists }

(* C10: when an exported payload of a plain document is missing, the run fails:
   it writes no manifest, processes no document after the first such document,
   and, having reached that document, ends there with FileNotFoundError. *)
C10_MissingSourceAborts ==
    [][ (ExportStep /\ MissingPlain(run'.o) # {})
            => LET d == Min(MissingPlain(run'.o))
                   n == Len(run'.processed)
               IN  /\ run'.status # "ok"
                   /\ ~run'.manifest_written
                   /\ \A i \in 1..n : run'.processed[i] <= d
                   /\ (\E i \in 1..n : run'.processed[i] = d)
                        => /\ run'.processed[n] = d
                           /\ run'.status = "FileNotFoundError"
                   /\ (\A i \in 1..n : run'.processed[i] # d)
                        => n > 0 /\ run'.processed[n] < d ]_vars

\* The payload of document 1 is gone: the run stops there, document 2 untouched.
C10_Witness ==
    /\ run.status = "FileNotFoundError"
    /\ run.processed = <<1>>
    /\ DOMAIN docs = DocIds
    /\ docs[1].storage_type = STORAGE_TYPE_UNENCRYPTED
    /\ \E i \in DOMAIN run.before.edits : run.before.edits[i].op = "remove"
    /\ ~run.manifest_written

\* An export run right after a successful one, nothing changed, same options.
SecondRun == ExportStep /\ run.status = "ok" /\ edits = << >> /\ run'.o = run.o

(* C1: a second export after a successful one, with the store, the
   media and the options unchanged, copies nothing. *)
C1_Idempotence == [][ SecondRun => run'.copies = << >> ]_vars

\* An export run after a successful one and one change, of a plain document's checksum.
ChecksumChanged(d) ==
    /\ ExportStep /\ run.status = "ok"
    /\ edits = << [op |-> "checksum", doc |-> d] >>
    /\ d \in DOMAIN docs
    /\ docs[d].storage_type = STORAGE_TYPE_UNENCRYPTED
    /\ run'.o.compare_checksums

(* C2: after the stored checksum of exactly one plain document
   changed, the next export with the checksum policy makes exactly one copy,
   of that document's original. *)
C2_IncrementalCorrectness ==
    [][ \A d \in DocIds :
            ChecksumChanged(d) => run'.copies = << <<d, "original">> >> ]_vars

\* Every file the run exported for entry i: its payloads and, split, its manifest.
ExportedFor(report, i) ==
    EntryPaths(report.document_manifest[i])
    \cup (IF report.o.split_manifest
          THEN { manifest_name(report.o, report.exported_files[i]) }
          ELSE {})

(* C4: after a successful export, the deletion of one document and a successful
   export with --delete, exactly the files the first export wrote for that
   document are removed, no directory is left empty, and every file the first
   export wrote for another document is still at its path. *)
C4_PruningCorrectness ==
    [][ ( /\ ExportStep /\ run.status = "ok"
          /\ Len(edits) = 1 /\ edits[1].op = "delete"
          /\ run'.o.delete /\ run'.status = "ok" )
            => LET old == run.document_manifest
                   gone == UNION { ExportedFor(run, i) :
                                     i \in { j \in DOMAIN old : old[j].pk = edits[1].doc } }
                   kept == UNION { ExportedFor(run, i) :
                                     i \in { j \in DOMAIN old : old[j].pk # edits[1].doc } }
               IN  /\ run'.removed = gone
                   /\ kept \subseteq DOMAIN fs'
                   /\ \A q \in dirs' : \E f \in DOMAIN fs' : q \in AncestorDirs(f)
      ]_vars

----------------------------------------------------------------------------
(* document_importer *)

\* Every base name the naming strategies give to a document of this model.
BaseNames ==
    UNION { { get_public_filename(key, c), generate_filename(key, c) } :
              key \in NameKeys, c \in 0..MaxDocs }

\* file.endswith("-manifest.json"), over the file names of this model
IsDocumentManifest(p) ==
    \E b \in BaseNames : p[Len(p)] = b[Len(b)] \o "-manifest.json"

\* The orders in which os.walk may come across the per-document manifests.
WalkOrders(files) ==
    LET found == { p \in DOMAIN files : IsDocumentManifest(p) }
    IN  { order \in [1..Cardinality(found) -> found] :
            \A i, j \in DOMAIN order : order[i] = order[j] => i = j }

RECURSIVE ReadManifests(_, _)
ReadManifests(files, manifest_paths) ==
    IF manifest_paths = << >> THEN << >>
    ELSE files[Head(manifest_paths)].entries
         \o ReadManifests(files, Tail(manifest_paths))

IsDocument(record) == record.model = "documents.document"

\* os.path.exists(os.path.join(self.source, name))
InSource(files, directories, name) == name \in DOMAIN files \cup directories

\* (mutant) nothing is validated
_check_manifest_Nothing(is, files, directories, manifest) == is

_check_manifest(is, files, directories, manifest) ==
    IF \E i \in DOMAIN manifest :
          /\ IsDocument(manifest[i])
          /\ \/ manifest[i].EXPORTER_FILE_NAME = NoName
             \/ ~InSource(files, directories, manifest[i].EXPORTER_FILE_NAME)
             \/ /\ manifest[i].EXPORTER_ARCHIVE_NAME # NoName
                /\ ~InSource(files, directories, manifest[i].EXPORTER_ARCHIVE_NAME)
    THEN Raise(is, "CommandError")
    ELSE is

\* The receivers of post_save and m2m_changed that disable_signal takes away:
\* update_filename_and_move_files, for either signal.
Signals == {"post_save", "m2m_changed"}

\* (mutant) the receiver is connected after the block only if nothing was raised
enable_signal_OnSuccess(is, sig) ==
    IF is.error # "" THEN is ELSE [is EXCEPT !.connected = @ \cup {sig}]

\* @contextmanager disable_signal: sig.disconnect(...) on entry
disable_signal(is, sig) == [is EXCEPT !.connected = @ \ {sig}]
\* ... and sig.connect(...) in its finally
enable_signal(is, sig) == [is EXCEPT !.connected = @ \cup {sig}]

\* A save of rows, noted with the receivers connected when it is made.
Noted(is, op) ==
    [is EXCEPT !.events = Append(@, [op |-> op, connected |-> is.connected])]

\* call_command("loaddata", manifest_path): the rows of one fixture are saved in
\* one transaction, and the foreign keys of the fixture's tables are checked at
\* its end; a comment of a document that is not in the store fails the check.
loaddata(is, entries) ==
    LET documents == { i \in DOMAIN entries : IsDocument(entries[i]) }
        pks == { entries[i].pk : i \in documents }
        commented == { entries[i].document : i \in DOMAIN entries \ documents }
        loaded == [ d \in DOMAIN is.docs \cup pks |->
                      IF d \in pks
                      THEN entries[CHOOSE i \in documents : entries[i].pk = d].fields
                      ELSE is.docs[d] ]
        noted == is.comments \cup commented
        called == Noted(is, "loaddata")
    IN  IF commented # {} /\ ~(noted \subseteq DOMAIN loaded)
        THEN Raise(called, "IntegrityError")
        ELSE [called EXCEPT !.docs = loaded, !.comments = noted]

\* for manifest_path in manifest_paths: call_command("loaddata", manifest_path)
RECURSIVE LoadAll(_, _, _)
LoadAll(is, files, manifest_paths) ==
    IF is.error # "" \/ manifest_paths = << >> THEN is
    ELSE LoadAll(loaddata(is, files[Head(manifest_paths)].entries),
                 files, Tail(manifest_paths))

\* shutil.copy2(<file of the source directory>, <canonical path>)
CopyIn(is, files, wanted, name, pk, k) ==
    IF is.error # "" \/ ~wanted THEN is
    ELSE IF name \notin DOMAIN files THEN Raise(is, "FileNotFoundError")
    ELSE [is EXCEPT
            !.media[pk][k] = SrcFile(files[name].content, files[name].mtime)]

\* (mutant) a file at the canonical source path is copied over
ImportDocument_Overwrite(is, files, record) ==
    LET pk == record.pk
        started == [is EXCEPT !.processed = Append(@, pk)]
        original == CopyIn(started, files, TRUE, record.EXPORTER_FILE_NAME, pk, "original")
    IN  IF original.error # "" THEN original
        ELSE [original EXCEPT !.docs[pk].storage_type = STORAGE_TYPE_UNENCRYPTED]

\* One turn of the loop of _import_files_from_manifest. The thumbnails of an
\* export are .webp files: the .png conversion is not taken.
ImportDocument(is, files, record) ==
    LET pk == record.pk
        started == [is EXCEPT !.processed = Append(@, pk)]
    IN  IF pk \notin DOMAIN is.docs THEN Raise(started, "DoesNotExist")
        ELSE IF is.media[pk]["original"].exists
        THEN Raise(started, "FileExistsError")
        ELSE LET original == CopyIn(started, files, TRUE,
                                    record.EXPORTER_FILE_NAME, pk, "original")
                 thumbnail == CopyIn(original, files,
                                     record.EXPORTER_THUMBNAIL_NAME # NoName,
                                     record.EXPORTER_THUMBNAIL_NAME, pk, "thumbnail")
                 archive == CopyIn(thumbnail, files,
                                   record.EXPORTER_ARCHIVE_NAME # NoName,
                                   record.EXPORTER_ARCHIVE_NAME, pk, "archive")
             IN  IF archive.error # "" THEN archive
                 ELSE [Noted(archive, "save") EXCEPT
                         !.docs[pk].storage_type = STORAGE_TYPE_UNENCRYPTED]

RECURSIVE _import_files_from_manifest(_, _, _)
_import_files_from_manifest(is, files, manifest) ==
    IF is.error # "" \/ manifest = << >> THEN is
    ELSE IF ~IsDocument(Head(manifest))
    THEN _import_files_from_manifest(is, files, Tail(manifest))
    ELSE _import_files_from_manifest(ImportDocument(is, files, Head(manifest)),
                                     files, Tail(manifest))

\* The store and the media directory in front of an import.
NewImport(documents, commented, payloads) ==
    [ docs |-> documents, comments |-> commented, media |-> payloads,
      processed |-> << >>, connected |-> Signals, events |-> << >>, error |-> "" ]

\* (mutant) the two with blocks end after the load, before the files are imported
handle_import_LoadOnly(is, files, directories, order) ==
    IF <<"manifest.json">> \notin DOMAIN files THEN Raise(is, "CommandError")
    ELSE LET manifest_paths == << <<"manifest.json">> >> \o order
             manifest == ReadManifests(files, manifest_paths)
             checked == _check_manifest(is, files, directories, manifest)
             disabled == disable_signal(disable_signal(checked, "post_save"),
                                        "m2m_changed")
             loaded == LoadAll(disabled, files, manifest_paths)
             enabled == enable_signal(enable_signal(loaded, "m2m_changed"),
                                      "post_save")
         IN  IF checked.error # "" THEN checked
             ELSE _import_files_from_manifest(enabled, files, manifest)

\* Command.handle of the importer, the source directory given by its files.
\* The load and the import of the files are both inside the two
\* "with disable_signal(...)" blocks, which end by connecting the receivers
\* again, exception or not.
handle_import(is, files, directories, order) ==
    IF <<"manifest.json">> \notin DOMAIN files THEN Raise(is, "CommandError")
    ELSE LET manifest_paths == << <<"manifest.json">> >> \o order
             manifest == ReadManifests(files, manifest_paths)
             checked == _check_manifest(is, files, directories, manifest)
             disabled == disable_signal(disable_signal(checked, "post_save"),
                                        "m2m_changed")
             loaded == LoadAll(disabled, files, manifest_paths)
             imported == _import_files_from_manifest(loaded, files, manifest)
         IN  IF checked.error # "" THEN checked
             ELSE enable_signal(enable_signal(imported, "m2m_changed"), "post_save")

\* Document.objects.all().delete(): the rows, their comments and their files go.
Wipe ==
    /\ run.status # "none"
    /\ saved.status = "none"
    /\ saved' = [ status |-> "wiped", n |-> nruns, docs |-> docs,
                  comments |-> comments, media |-> media, planted |-> {},
                  damaged |-> {} ]
    /\ docs' = [d \in {} |-> 0]
    /\ comments' = {}
    /\ media' = [d \in DocIds |-> NoPayloads]
    /\ UNCHANGED <<fs, dirs, cfg, run, edits, nruns, nedits, imp>>
    /\ UNCHANGED handleVars

\* Some file lies at the path a document's original is to be restored to.
Plant(d) ==
    /\ saved.status = "wiped"
    /\ imp.status = "none"
    /\ Cardinality(saved.planted) < MaxPlanted
    /\ ~media[d]["original"].exists
    /\ media' = [media EXCEPT ![d]["original"] = SrcFile(777, 9)]
    /\ saved' = [saved EXCEPT !.planted = @ \cup {d}]
    /\ UNCHANGED <<docs, comments, fs, dirs, cfg, run, edits, nruns, nedits, imp>>
    /\ UNCHANGED handleVars

\* The export directory is tampered with between the export and the import:
\* a payload file of it is removed.
RemoveExported(p) ==
    /\ saved.status = "wiped"
    /\ imp.status = "none"
    /\ saved.planted = {}
    /\ Cardinality(saved.damaged) < MaxDamage
    /\ p \in DOMAIN fs \ {<<"manifest.json">>, <<"version.json">>}
    /\ ~IsDocumentManifest(p)
    /\ fs' = RemoveFile(fs, p)
    /\ saved' = [saved EXCEPT !.damaged = @ \cup {p}]
    /\ UNCHANGED <<docs, comments, media, dirs, cfg, run, edits, nruns, nedits, imp>>
    /\ UNCHANGED handleVars

\* ... or a Document entry of a manifest file loses its key of the original.
StripOriginal(p, i) ==
    /\ saved.status = "wiped"
    /\ imp.status = "none"
    /\ saved.planted = {}
    /\ Cardinality(saved.damaged) < MaxDamage
    /\ p \in DOMAIN fs
    /\ i \in DOMAIN fs[p].entries
    /\ "model" \in DOMAIN fs[p].entries[i]
    /\ IsDocument(fs[p].entries[i])
    /\ fs' = [fs EXCEPT ![p].entries[i].EXPORTER_FILE_NAME = NoName]
    /\ saved' = [saved EXCEPT !.damaged = @ \cup {p}]
    /\ UNCHANGED <<docs, comments, media, dirs, cfg, run, edits, nruns, nedits, imp>>
    /\ UNCHANGED handleVars

\* call_command("document_importer", source), the export directory as source
Import(order) ==
    /\ saved.status = "wiped"
    /\ imp.status = "none"
    /\ \E done \in {handle_import(NewImport(docs, comments, media), fs, dirs, order)} :
          /\ docs' = done.docs
          /\ comments' = done.comments
          /\ media' = done.media
          /\ imp' = [ status |-> IF done.error = "" THEN "ok" ELSE done.error,
                      n |-> nruns,
                      processed |-> done.processed,
                      connected |-> done.connected,
                      events |-> done.events ]
    /\ UNCHANGED <<fs, dirs, cfg, run, edits, nruns, nedits, saved>>
    /\ UNCHANGED handleVars

NextImport ==
    \/ \E compare_checksums \in BOOLEAN, delete \in BOOLEAN :
          Export(compare_checksums, delete)
    \/ Wipe
    \/ \E d \in DocIds : Plant(d)
    \/ \E p \in DOMAIN fs : RemoveExported(p)
    \/ \E p \in DOMAIN fs : \E i \in 1..(2 * MaxDocs) : StripOriginal(p, i)
    \/ \E order \in WalkOrders(fs) : Import(order)

SpecImport == Init /\ [][NextImport]_vars

----------------------------------------------------------------------------
(* Properties of the import run *)

\* A step that is an import run.
ImportStep == imp' # imp

\* An export to a fresh directory, the store emptied, and the import done.
RoundTripDone ==
    /\ imp.status # "none"
    /\ run.n = 1 /\ saved.n = 1 /\ imp.n = 1
    /\ saved.planted = {}
    /\ saved.damaged = {}

\* The plaintext of a payload of the store as it was.
SavedPlain(d, k) ==
    IF saved.docs[d].storage_type = STORAGE_TYPE_GPG
    THEN Decrypted(saved.media[d][k].content)
    ELSE saved.media[d][k].content

\* The fields of a document, the storage mode left aside.
Metadata(document) == [document EXCEPT !.storage_type = STORAGE_TYPE_UNENCRYPTED]

(* C6: an export to a fresh directory, the deletion of all documents and their
   files, and an import from the directory end in success and in a store with
   the same document ids and metadata, each document with an original, and an
   archive if it had one and archives were exported, of the plaintext content
   it had. *)
C6_RoundTrip ==
    RoundTripDone =>
        /\ imp.status = "ok"
        /\ DOMAIN docs = DOMAIN saved.docs
        /\ \A d \in DOMAIN saved.docs :
              /\ d \in DOMAIN docs
              /\ Metadata(docs[d]) = Metadata(saved.docs[d])
              /\ media[d]["original"].exists
              /\ media[d]["original"].content = SavedPlain(d, "original")
              /\ (saved.docs[d].has_archive_version /\ ~cfg.no_archive)
                    => /\ media[d]["archive"].exists
                       /\ media[d]["archive"].content = SavedPlain(d, "archive")

\* The same export and import, the manifest layout the other one.
OtherLayout(order) ==
    LET exported == dump(NewCommand(NoFiles, {}),
                         [run.o EXCEPT !.split_manifest = ~@],
                         saved.docs, saved.comments, saved.media)
    IN  handle_import(NewImport([d \in {} |-> 0], {}, [d \in DocIds |-> NoPayloads]),
                      exported.fs, exported.dirs, order)

OtherOrders ==
    WalkOrders(dump(NewCommand(NoFiles, {}),
                    [run.o EXCEPT !.split_manifest = ~@],
                    saved.docs, saved.comments, saved.media).fs)

(* C7: an export to a fresh directory and an import into the emptied store end
   the same way, with the same store and the same media files, whether the
   manifest is split or not. *)
C7_SplitManifestEquivalence ==
    RoundTripDone =>
        \A order \in OtherOrders :
            \E other \in {OtherLayout(order)} :
                /\ (imp.status = "ok") = (other.error = "")
                /\ (imp.status # "ok") => imp.status = other.error
                /\ docs = other.docs
                /\ comments = other.comments
                /\ media = other.media

(* C8: an import that comes to restore a document whose canonical original
   path holds a file ends there with FileExistsError, and the files at the
   document's canonical paths are as they were. *)
C8_ConflictRejection ==
    [][ ImportStep
            => \A i \in DOMAIN imp'.processed :
                  media[imp'.processed[i]]["original"].exists
                      => /\ imp'.status = "FileExistsError"
                         /\ i = Len(imp'.processed)
                         /\ media'[imp'.processed[i]] = media[imp'.processed[i]]
      ]_vars

\* The second document's path was taken: the first is restored, the import fails.
C8_Witness ==
    /\ imp.status = "FileExistsError"
    /\ Len(imp.processed) = 2
    /\ imp.processed[2] \in saved.planted
    /\ media[imp.processed[2]]["original"] = SrcFile(777, 9)
    /\ media[imp.processed[1]]["original"].exists

----------------------------------------------------------------------------
(* Properties of the manifests an export run writes *)

\* The Document entries of a manifest file, in the order of the file.
DocumentEntries(entries) ==
    SelectSeq(entries, LAMBDA e : "model" \in DOMAIN e /\ e.model = "documents.document")

(* C11: every Document entry an export run writes, into manifest.json or into
   a per-document manifest, and whether the run succeeds or fails, carries the
   storage type "unencrypted", whatever the storage type of the Document in the
   store; and the run leaves the Documents of the store as they are. *)
C11_ExportedAsPlain ==
    [][ExportStep =>
         /\ docs' = docs
         /\ \A i \in DOMAIN run'.manifests :
               LET written == DocumentEntries(run'.manifests[i].entries)
               IN  \A j \in DOMAIN written :
                      written[j].fields.storage_type = STORAGE_TYPE_UNENCRYPTED
         /\ \A i \in DOMAIN run'.document_manifest :
               run'.document_manifest[i].fields.storage_type
                   = STORAGE_TYPE_UNENCRYPTED]_vars

C11_Witness ==
    /\ run.status = "ok"
    /\ \E i \in DOMAIN run.manifests :
          LET written == DocumentEntries(run.manifests[i].entries)
          IN  \E j \in DOMAIN written :
                 /\ written[j].pk \in DOMAIN docs
                 /\ docs[written[j].pk].storage_type = STORAGE_TYPE_GPG
                 /\ written[j].fields.storage_type = STORAGE_TYPE_UNENCRYPTED

\* The writes of a run to the manifest file of path p, in the order made.
WritesTo(report, p) == SelectSeq(report.manifests, LAMBDA w : w.p = p)

\* The path of the per-document manifest of the i-th document of a run.
DocumentManifestPath(report, i) ==
    JoinTarget(report.o.target, manifest_name(report.o, report.exported_files[i])).p

(* C12: a successful export run processes every Document of the store and
   writes manifest.json once. With --split-manifest, manifest.json holds no
   Document entry, and for every Document processed exactly one per-document
   manifest is written, at the name made from the Document's base name, holding
   that Document's entry (with its path fields) and nothing else; no other
   per-document manifest is written. Without --split-manifest, the Document
   entries of manifest.json are those of all Documents, in order, with their
   path fields, and no per-document manifest is written, even by a failed run. *)
C12_ManifestLayout ==
    [][ExportStep =>
         LET report == run'
             n == Len(report.processed)
             unified == WritesTo(report, <<"manifest.json">>)
             split == SelectSeq(report.manifests, LAMBDA w : IsDocumentManifest(w.p))
         IN  /\ ~report.o.split_manifest => split = << >>
             /\ report.status = "ok" =>
                   /\ { report.processed[i] : i \in 1..n } = DOMAIN docs
                   /\ Len(report.document_manifest) = n
                   /\ \A i \in 1..n :
                         /\ report.document_manifest[i].pk = report.processed[i]
                         /\ report.document_manifest[i].EXPORTER_FILE_NAME # NoName
                   /\ Len(unified) = 1
                   /\ IF report.o.split_manifest
                      THEN /\ DocumentEntries(unified[1].entries) = << >>
                           /\ Len(split) = n
                           /\ \A i \in 1..n :
                                 LET own == WritesTo(report, DocumentManifestPath(report, i))
                                 IN  /\ Len(own) = 1
                                     /\ own[1].entries = <<report.document_manifest[i]>>
                                     /\ IsDocumentManifest(own[1].p)
                      ELSE DocumentEntries(unified[1].entries)
                               = report.document_manifest]_vars

C12_Witness ==
    /\ run.status = "ok"
    /\ run.o.split_manifest
    /\ Len(run.processed) = MaxDocs
    /\ \A i \in 1..MaxDocs :
          /\ DocumentManifestPath(run, i) \in DOMAIN fs
          /\ fs[DocumentManifestPath(run, i)].entries = <<run.document_manifest[i]>>
    /\ DocumentEntries(fs[<<"manifest.json">>].entries) = << >>

----------------------------------------------------------------------------
(* Properties of the validation of the import *)

\* The manifest files of a source directory.
ManifestFiles(files) ==
    { p \in DOMAIN files : p = <<"manifest.json">> \/ IsDocumentManifest(p) }

\* A Document entry that has no original path, or whose original, or whose
\* declared archive, is not in the source directory.
Offending(files, entry) ==
    \/ entry.EXPORTER_FILE_NAME = NoName
    \/ entry.EXPORTER_FILE_NAME \notin DOMAIN files
    \/ /\ entry.EXPORTER_ARCHIVE_NAME # NoName
       /\ entry.EXPORTER_ARCHIVE_NAME \notin DOMAIN files

\* The Document entries of the manifest files of a source directory.
SourceEntries(files) ==
    UNION { { DocumentEntries(files[p].entries)[i] :
                i \in DOMAIN DocumentEntries(files[p].entries) } :
            p \in ManifestFiles(files) }

(* C14: an import from a directory that has a manifest.json and in whose
   manifests some Document entry, at whatever place, has no original path or
   names an original or an archive that is not in the directory, ends with a
   CommandError, and no row is loaded and no payload copied: the store and the
   media directory are as they were. *)
C14_ValidationFailFast ==
    [][(/\ ImportStep
        /\ <<"manifest.json">> \in DOMAIN fs
        /\ \E entry \in SourceEntries(fs) : Offending(fs, entry))
       => /\ imp'.status = "CommandError"
          /\ imp'.processed = << >>
          /\ docs' = docs /\ comments' = comments /\ media' = media]_vars

\* The first Document entry is sound and a later one is not.
C14_Witness ==
    /\ imp.status = "CommandError"
    /\ saved.status = "wiped"
    /\ saved.damaged # {}
    /\ <<"manifest.json">> \in DOMAIN fs
    /\ LET entries == DocumentEntries(fs[<<"manifest.json">>].entries)
       IN  /\ Len(entries) = MaxDocs
           /\ ~Offending(fs, entries[1])
           /\ Offending(fs, entries[MaxDocs])
    /\ DOMAIN docs = {}

----------------------------------------------------------------------------
(* Properties of the bookkeeping of the export directory *)

\* The paths of the export directory a run's manifest names for its documents.
ExportedPaths(report) ==
    UNION { { AbsPath(JoinTarget(report.o.target, name)) :
                name \in EntryPaths(report.document_manifest[i]) } :
            i \in DOMAIN report.document_manifest }

(* C18: when an export run has exported its documents, no path the manifest
   names for an original, a thumbnail or an archive of a document, whatever the
   document's storage type and whether or not the file was written, is left
   among the files of the export directory that step 5 removes. *)
C18_ExportedPathsClaimed ==
    run.status = "ok" => ExportedPaths(run) \cap run.stale = {}

----------------------------------------------------------------------------
(* Properties of the comparison policies *)

\* What check_and_copy compares without --compare-checksums.
StatDiffers(check) ==
    \/ check.source.mtime # check.target.mtime
    \/ Size(check.source.content) # Size(check.target.content)

\* An export run after a successful one and one change: the modification time
\* of an exported payload of a plain document.
Touched(d, k) ==
    /\ ExportStep /\ run.status = "ok"
    /\ edits = << [op |-> "touch", doc |-> d, kind |-> k] >>
    /\ d \in DOMAIN docs
    /\ docs[d].storage_type = STORAGE_TYPE_UNENCRYPTED
    /\ k \in ExportedKinds(run'.o, docs[d])

(* C19: without --compare-checksums, every payload of a plain document that
   check_and_copy looks at is copied iff its target is absent, or the
   modification times of source and target differ, or their sizes differ; and
   after the modification time of exactly one source file changed, the next
   run makes exactly one copy, of that payload. *)
C19_SizeMtimePolicy ==
    [][(ExportStep /\ ~run'.o.compare_checksums) =>
         /\ \A i \in DOMAIN run'.checks :
               run'.checks[i].perform_copy
                   <=> (~run'.checks[i].present \/ StatDiffers(run'.checks[i]))
         /\ \A d \in DocIds, k \in Kinds :
               Touched(d, k) => run'.copies = << <<d, k>> >>]_vars

\* The decisions an export run with --compare-checksums made for the
\* originals and the archives.
ChecksumChecks(report) ==
    IF report.o.compare_checksums
    THEN { i \in DOMAIN report.checks : report.checks[i].who[2] # "thumbnail" }
    ELSE {}

\* A decision is followed by the copy, and no copy is made without one.
CopiedAsDecided(report) ==
    \A i \in DOMAIN report.checks :
        report.checks[i].perform_copy
            <=> \E j \in DOMAIN report.copies : report.copies[j] = report.checks[i].who

(* C20, as the claim states it: with --compare-checksums, an original or an
   archive of a plain document is copied iff its target is absent or the hash
   of the target differs from the stored checksum, the checksum empty or not. *)
C20_HashAlone ==
    [][ExportStep =>
         \A i \in ChecksumChecks(run') :
             run'.checks[i].perform_copy
                 <=> \/ ~run'.checks[i].present
                     \/ Md5(run'.checks[i].target.content) # run'.checks[i].checksum]_vars

(* C20, amended: with --compare-checksums, an original or an archive of a plain
   document is copied iff its target is absent, or the stored checksum is not
   empty and the hash of the target differs from it, or the stored checksum is
   empty and the modification times or the sizes of source and target differ. *)
C20_ChecksumPolicy ==
    [][ExportStep =>
         /\ CopiedAsDecided(run')
         /\ \A i \in ChecksumChecks(run') :
               run'.checks[i].perform_copy
                   <=> \/ ~run'.checks[i].present
                       \/ /\ run'.checks[i].checksum # 0
                          /\ Md5(run'.checks[i].target.content) # run'.checks[i].checksum
                       \/ /\ run'.checks[i].checksum = 0
                          /\ StatDiffers(run'.checks[i])]_vars

\* A target is kept whose hash is not the (empty) stored checksum.
C20_Witness ==
    /\ run.status = "ok"
    /\ \E i \in ChecksumChecks(run) :
          /\ run.checks[i].present
          /\ run.checks[i].checksum = 0
          /\ Md5(run.checks[i].target.content) # 0
          /\ ~run.checks[i].perform_copy

----------------------------------------------------------------------------
(* Command.handle of the exporter and of the importer, step by step: several
   invocations (processes) run side by side over one store, one media
   directory, one export directory and one media lock. *)

\* tempfile.TemporaryDirectory(dir=settings.SCRATCH_DIR, prefix="paperless-export")
NewStaging == [fs |-> NoFiles, dirs |-> {}]

\* The archive shutil.make_archive writes into the original target.
ArchiveName == <<"export.zip">>

\* The export directory is removed, or made read-only, before any command runs.
RemoveTarget ==
    /\ cmds = << >>
    /\ target_dir = [exists |-> TRUE, writable |-> TRUE]
    /\ fs = NoFiles /\ dirs = {}
    /\ run.status = "none"
    /\ target_dir' = [exists |-> FALSE, writable |-> FALSE]
    /\ UNCHANGED <<docs, comments, media, fs, dirs, cfg, run, edits, nruns, nedits,
                   saved, imp, lock, cmds, staging>>

ProtectTarget ==
    /\ cmds = << >>
    /\ target_dir = [exists |-> TRUE, writable |-> TRUE]
    /\ run.status = "none"
    /\ target_dir' = [exists |-> TRUE, writable |-> FALSE]
    /\ UNCHANGED <<docs, comments, media, fs, dirs, cfg, run, edits, nruns, nedits,
                   saved, imp, lock, cmds, staging>>

\* What no step of a command changes.
Bookkeeping == <<cfg, run, edits, nruns, nedits, saved, imp>>

\* tempfile.TemporaryDirectory().name: an absolute path
TempDir == [abs |-> TRUE]

\* handle(), lines 145-165: the options are read and, with --zip, the target
\* is replaced by a new temporary directory.
StartExport(zip_export, compare_checksums, delete) ==
    /\ Len(cmds) < MaxCommands
    /\ cmds' = Append(cmds, [ kind |-> "export", pc |-> "check", status |-> "",
                              zip_export |-> zip_export,
                              o |-> IF zip_export
                                    THEN [Options(cfg, compare_checksums, delete)
                                            EXCEPT !.target = TempDir]
                                    ELSE Options(cfg, compare_checksums, delete),
                              invalid |-> ~(target_dir.exists /\ target_dir.writable),
                              dumped |-> FALSE, archived |-> {} ])
    /\ staging' = IF zip_export THEN Append(staging, NewStaging)
                  ELSE Append(staging, << >>)
    /\ UNCHANGED <<docs, comments, media, fs, dirs, lock, target_dir>>
    /\ UNCHANGED Bookkeeping

\* lines 167-171: os.path.exists(self.target), os.access(self.target, os.W_OK)
CheckTarget(c) ==
    /\ c \in DOMAIN cmds
    /\ cmds[c].kind = "export" /\ cmds[c].pc = "check"
    /\ LET usable == IF cmds[c].zip_export THEN staging[c] # << >>
                     ELSE target_dir.exists /\ target_dir.writable
       IN  cmds' = IF usable THEN [cmds EXCEPT ![c].pc = "lock"]
                   ELSE [cmds EXCEPT ![c].pc = "done", ![c].status = "CommandError"]
    /\ UNCHANGED <<docs, comments, media, fs, dirs, lock, target_dir, staging>>
    /\ UNCHANGED Bookkeeping

\* "with FileLock(settings.MEDIA_LOCK):" is entered once the lock is free
AcquireLock(c) ==
    /\ c \in DOMAIN cmds
    /\ cmds[c].pc = "lock"
    /\ lock = 0
    /\ lock' = c
    /\ cmds' = [cmds EXCEPT
                  ![c].pc = IF cmds[c].kind = "export" THEN "dump" ELSE "restore"]
    /\ UNCHANGED <<docs, comments, media, fs, dirs, target_dir, staging>>
    /\ UNCHANGED Bookkeeping

\* line 175: self.dump(), into the target or into the temporary directory
Dump(c) ==
    /\ c \in DOMAIN cmds
    /\ cmds[c].kind = "export" /\ cmds[c].pc = "dump"
    /\ \E place \in {IF cmds[c].zip_export THEN staging[c]
                     ELSE [fs |-> fs, dirs |-> dirs]} :
       \E done \in {dump(NewCommand(place.fs, place.dirs), cmds[c].o,
                         docs, comments, media)} :
          /\ IF cmds[c].zip_export
             THEN /\ staging' = [staging EXCEPT
                                   ![c] = [fs |-> done.fs, dirs |-> done.dirs]]
                  /\ UNCHANGED <<fs, dirs>>
             ELSE /\ fs' = done.fs
                  /\ dirs' = done.dirs
                  /\ UNCHANGED staging
          /\ cmds' = [cmds EXCEPT
                        ![c].pc = IF done.error = "" /\ cmds[c].zip_export
                                  THEN "archive" ELSE "unlock",
                        ![c].status = done.error,
                        ![c].dumped = done.manifest_written]
    /\ UNCHANGED <<docs, comments, media, lock, target_dir>>
    /\ UNCHANGED Bookkeeping

\* lines 179-187: shutil.make_archive(os.path.join(original_target, "export-..."),
\* format="zip", root_dir=temp_dir.name). It makes the directory of the archive
\* if that does not exist, and fails if it may not write there.
MakeArchive(c) ==
    /\ c \in DOMAIN cmds
    /\ cmds[c].kind = "export" /\ cmds[c].pc = "archive"
    /\ IF target_dir.exists /\ ~target_dir.writable
       THEN /\ cmds' = [cmds EXCEPT ![c].pc = "unlock",
                                    ![c].status = "PermissionError"]
            /\ UNCHANGED <<fs, target_dir>>
       ELSE /\ cmds' = [cmds EXCEPT ![c].pc = "unlock",
                                    ![c].archived = DOMAIN staging[c].fs]
            /\ fs' = PutFile(fs, ArchiveName, ExportFile(0, 0))
            /\ target_dir' = [exists |-> TRUE, writable |-> TRUE]
    /\ UNCHANGED <<docs, comments, media, dirs, lock, staging>>
    /\ UNCHANGED Bookkeeping

\* (mutant) the lock is given back only by a block that ends without exception
ReleaseLock_OnSuccess(c) ==
    /\ c \in DOMAIN cmds
    /\ cmds[c].pc = "unlock"
    /\ lock' = IF cmds[c].status = "" THEN 0 ELSE lock
    /\ cmds' = [cmds EXCEPT
                  ![c].pc = IF cmds[c].kind = "export" THEN "cleanup"
                            ELSE IF cmds[c].status = "" THEN "save" ELSE "done"]
    /\ UNCHANGED <<docs, comments, media, fs, dirs, target_dir, staging>>
    /\ UNCHANGED Bookkeeping

\* the with block is left, by its end or by an exception: FileLock.__exit__
ReleaseLock(c) ==
    /\ c \in DOMAIN cmds
    /\ cmds[c].pc = "unlock"
    /\ lock' = 0
    /\ cmds' = [cmds EXCEPT
                  ![c].pc = IF cmds[c].kind = "export" THEN "cleanup"
                            ELSE IF cmds[c].status = "" THEN "save" ELSE "done"]
    /\ UNCHANGED <<docs, comments, media, fs, dirs, target_dir, staging>>
    /\ UNCHANGED Bookkeeping

\* (mutant) the temporary directory is removed only after a successful run
Cleanup_OnSuccess(c) ==
    /\ c \in DOMAIN cmds
    /\ cmds[c].kind = "export" /\ cmds[c].pc = "cleanup"
    /\ staging' = IF cmds[c].zip_export /\ cmds[c].status = ""
                  THEN [staging EXCEPT ![c] = << >>] ELSE staging
    /\ cmds' = [cmds EXCEPT ![c].pc = "done",
                            ![c].status = IF @ = "" THEN "ok" ELSE @]
    /\ UNCHANGED <<docs, comments, media, fs, dirs, lock, target_dir>>
    /\ UNCHANGED Bookkeeping

\* lines 189-192, finally: temp_dir.cleanup()
Cleanup(c) ==
    /\ c \in DOMAIN cmds
    /\ cmds[c].kind = "export" /\ cmds[c].pc = "cleanup"
    /\ staging' = IF cmds[c].zip_export THEN [staging EXCEPT ![c] = << >>]
                  ELSE staging
    /\ cmds' = [cmds EXCEPT ![c].pc = "done",
                            ![c].status = IF @ = "" THEN "ok" ELSE @]
    /\ UNCHANGED <<docs, comments, media, fs, dirs, lock, target_dir>>
    /\ UNCHANGED Bookkeeping

\* document_importer, handle(): a new invocation, the export directory its source
StartImport ==
    /\ Len(cmds) < MaxCommands
    /\ cmds' = Append(cmds, [ kind |-> "import", pc |-> "check", status |-> "",
                              manifest_paths |-> << >>, todo |-> << >> ])
    /\ staging' = Append(staging, << >>)
    /\ UNCHANGED <<docs, comments, media, fs, dirs, lock, target_dir>>
    /\ UNCHANGED Bookkeeping

\* handle(), lines 67-112: the source and its manifest.json exist, the manifests
\* are read in the order of os.walk, and _check_manifest validates the entries.
ImportCheck(c, order) ==
    /\ c \in DOMAIN cmds
    /\ cmds[c].kind = "import" /\ cmds[c].pc = "check"
    /\ IF ~target_dir.exists \/ <<"manifest.json">> \notin DOMAIN fs
       THEN cmds' = [cmds EXCEPT ![c].pc = "done", ![c].status = "CommandError"]
       ELSE LET manifest_paths == << <<"manifest.json">> >> \o order
                manifest == ReadManifests(fs, manifest_paths)
                checked == _check_manifest(NewImport(docs, comments, media),
                                           fs, dirs, manifest)
            IN  cmds' = IF checked.error # ""
                        THEN [cmds EXCEPT ![c].pc = "done",
                                          ![c].status = checked.error]
                        ELSE [cmds EXCEPT
                                ![c].pc = "load",
                                ![c].manifest_paths = manifest_paths,
                                ![c].todo = DocumentEntries(manifest)]
    /\ UNCHANGED <<docs, comments, media, fs, dirs, lock, target_dir, staging>>
    /\ UNCHANGED Bookkeeping

\* The fixtures loaddata finds: it fails at the first that is gone by now.
RECURSIVE Present(_, _)
Present(files, manifest_paths) ==
    IF manifest_paths = << >> \/ Head(manifest_paths) \notin DOMAIN files THEN << >>
    ELSE <<Head(manifest_paths)>> \o Present(files, Tail(manifest_paths))

\* lines 122-126: call_command("loaddata", manifest_path) for every manifest
ImportLoad(c) ==
    /\ c \in DOMAIN cmds
    /\ cmds[c].kind = "import" /\ cmds[c].pc = "load"
    /\ LET found == Present(fs, cmds[c].manifest_paths)
           loaded == LoadAll(NewImport(docs, comments, media), fs, found)
           error == IF loaded.error # "" THEN loaded.error
                    ELSE IF found # cmds[c].manifest_paths THEN "CommandError"
                    ELSE ""
       IN  /\ docs' = loaded.docs
           /\ comments' = loaded.comments
           /\ cmds' = IF error # ""
                      THEN [cmds EXCEPT ![c].pc = "done", ![c].status = error]
                      ELSE IF cmds[c].todo = << >>
                      THEN [cmds EXCEPT ![c].pc = "done", ![c].status = "ok"]
                      ELSE [cmds EXCEPT ![c].pc = "lock"]
    /\ UNCHANGED <<media, fs, dirs, lock, target_dir, staging>>
    /\ UNCHANGED Bookkeeping

\* _import_files_from_manifest, lines 224-252: under the lock, the original must
\* not be there, and the files of one document are copied into the media directory
ImportRestore(c) ==
    /\ c \in DOMAIN cmds
    /\ cmds[c].kind = "import" /\ cmds[c].pc = "restore"
    /\ LET restored == ImportDocument(NewImport(docs, comments, media), fs,
                                      Head(cmds[c].todo))
       IN  /\ media' = restored.media
           /\ cmds' = [cmds EXCEPT ![c].pc = "unlock", ![c].status = restored.error]
    /\ UNCHANGED <<docs, comments, fs, dirs, lock, target_dir, staging>>
    /\ UNCHANGED Bookkeeping

\* line 254: document.save(), and the next turn of the loop
ImportSave(c) ==
    /\ c \in DOMAIN cmds
    /\ cmds[c].kind = "import" /\ cmds[c].pc = "save"
    /\ docs' = [docs EXCEPT
                  ![Head(cmds[c].todo).pk].storage_type = STORAGE_TYPE_UNENCRYPTED]
    /\ cmds' = IF Tail(cmds[c].todo) = << >>
               THEN [cmds EXCEPT ![c].pc = "done", ![c].status = "ok",
                                 ![c].todo = << >>]
               ELSE [cmds EXCEPT ![c].pc = "lock", ![c].todo = Tail(@)]
    /\ UNCHANGED <<comments, media, fs, dirs, lock, target_dir, staging>>
    /\ UNCHANGED Bookkeeping

\* An export run made, from the taking of the lock to its release, before the
\* invocations that run side by side. The directory is empty: the comparison
\* policy and --delete make no difference to what the run leaves there.
PriorExport ==
    /\ cmds = << >>
    /\ run.status = "none"
    /\ Export(FALSE, FALSE)

\* ... and the store emptied after it.
PriorWipe ==
    /\ cmds = << >>
    /\ Wipe

\* The stores of Init within the budget MaxVarHandle.
InitHandle ==
    /\ Init
    /\ Variation([d \in DocIds |-> [title |-> docs[d].title, ftype |-> docs[d].ftype]],
                 [d \in DocIds |-> docs[d].storage_type],
                 [d \in DocIds |-> docs[d].has_archive_version],
                 comments, cfg) <= MaxVarHandle

NextHandle ==
    \/ RemoveTarget
    \/ ProtectTarget
    \/ PriorExport
    \/ PriorWipe
    \/ \E zip_export \in BOOLEAN, compare_checksums \in BOOLEAN, delete \in BOOLEAN :
          StartExport(zip_export, compare_checksums, delete)
    \/ StartImport
    \/ \E c \in 1..MaxCommands :
          \/ CheckTarget(c)
          \/ AcquireLock(c)
          \/ Dump(c)
          \/ MakeArchive(c)
          \/ ReleaseLock(c)
          \/ Cleanup(c)
          \/ \E order \in WalkOrders(fs) : ImportCheck(c, order)
          \/ ImportLoad(c)
          \/ ImportRestore(c)
          \/ ImportSave(c)

SpecHandle == InitHandle /\ [][NextHandle]_vars

----------------------------------------------------------------------------
(* Properties of handle(): the target, the media lock, the staging directory *)

Exporters == { c \in DOMAIN cmds : cmds[c].kind = "export" }
Importers == { c \in DOMAIN cmds : cmds[c].kind = "import" }

\* Where an exporter is inside "with FileLock(settings.MEDIA_LOCK)".
InLock == {"dump", "archive", "unlock"}

(* C13: an export invoked, with whatever options, --zip among them, with a
   target that does not exist or is not writable ends with a CommandError
   before anything else: it never takes the media lock, never gets to dump(),
   and writes nothing into the target. *)
C13_UnusableTargetRejected ==
    \A c \in Exporters :
        cmds[c].invalid =>
            /\ cmds[c].pc \in {"check", "done"}
            /\ cmds[c].pc = "done" => cmds[c].status = "CommandError"
            /\ lock # c
            /\ ~cmds[c].dumped /\ cmds[c].archived = {}

(* C15: an exporter is at dump(), at the archiving or at the end of the with
   block exactly when it holds the media lock, so at most one exporter is there
   at a time; and an exporter that has left the block, by its end or by an
   exception of dump() or of the archiving, does not hold the lock. *)
C15_ExportUnderLock ==
    /\ \A c \in Exporters : cmds[c].pc \in InLock <=> lock = c
    /\ Cardinality({ c \in Exporters : cmds[c].pc \in InLock }) <= 1

\* An exporter has failed inside the block, and the other one holds the lock.
C15_Witness ==
    \E c1, c2 \in Exporters :
        /\ cmds[c1].pc = "done"
        /\ cmds[c1].status \notin {"ok", "CommandError"}
        /\ cmds[c2].pc \in InLock
        /\ lock = c2

\* An importer between the end of its validation and its end.
Importing(c) ==
    c \in Importers /\ cmds[c].pc \in {"load", "lock", "restore", "unlock", "save"}

(* C16: while an import run is between the validation of its manifest and the
   saving of its last document, no other command takes the media lock. *)
C16_ImportUnderLock ==
    [][\A c \in DOMAIN cmds :
          Importing(c) => (lock' = lock \/ lock' \in {0, c})]_vars

\* What holds of the staging directory of an exporter with --zip.
StagingKept(c) ==
    /\ cmds[c].pc # "done" => staging[c] # << >>
    /\ cmds[c].pc = "done" => staging[c] = << >>
    /\ cmds[c].pc = "archive" => cmds[c].status = "" /\ cmds[c].dumped
    /\ cmds[c].archived # {} =>
          /\ cmds[c].dumped
          /\ {<<"manifest.json">>, <<"version.json">>} \subseteq cmds[c].archived
    /\ ~cmds[c].dumped => cmds[c].archived = {}

(* C17: with --zip, dump() writes into the temporary directory and leaves the
   target as it is; the archive is made only by an exporter whose dump() has
   ended without exception, from a directory that holds the manifest; and the
   temporary directory is there until the exporter ends and is gone when it
   has ended, whether the archive was made, dump() failed or the archiving
   failed. *)
C17_StagingDirectory ==
    [][/\ \A c \in Exporters' : cmds'[c].zip_export => StagingKept(c)'
       /\ \A c \in Exporters :
             (cmds[c].zip_export /\ cmds[c].pc = "dump" /\ cmds'[c].pc # "dump")
                 => fs' = fs /\ dirs' = dirs /\ target_dir' = target_dir
       /\ (ArchiveName \in DOMAIN fs' /\ ArchiveName \notin DOMAIN fs)
             => \E c \in Exporters :
                   /\ cmds[c].zip_export /\ cmds[c].pc = "archive"
                   /\ cmds[c].dumped /\ cmds[c].status = ""
                   /\ cmds'[c].archived = DOMAIN staging[c].fs]_vars

\* The archiving has failed, and the temporary directory is gone.
C17_Witness ==
    \E c \in Exporters :
        /\ cmds[c].zip_export
        /\ cmds[c].pc = "done"
        /\ cmds[c].status = "PermissionError"
        /\ cmds[c].dumped
        /\ staging[c] = << >>

\* The decisions an export run with --compare-checksums made for the thumbnails.
ThumbnailChecks(report) ==
    IF report.o.compare_checksums
    THEN { i \in DOMAIN report.checks : report.checks[i].who[2] = "thumbnail" }
    ELSE {}

(* C21, as the claim states it: with --compare-checksums, the thumbnail of a
   plain document is copied iff its target is absent. *)
C21_ExistenceOnly ==
    [][ExportStep =>
         \A i \in ThumbnailChecks(run') :
             run'.checks[i].perform_copy <=> ~run'.checks[i].present]_vars

(* C21, amended: with --compare-checksums, the thumbnail of a plain document
   is copied iff its target is absent, or the modification times or the sizes
   of source and target differ; the hash of the target plays no part. *)
C21_ThumbnailPolicy ==
    [][ExportStep =>
         \A i \in ThumbnailChecks(run') :
             /\ run'.checks[i].checksum = 0
             /\ run'.checks[i].perform_copy
                   <=> (~run'.checks[i].present \/ StatDiffers(run'.checks[i]))]_vars

\* A thumbnail that is there is copied again, after its source was touched.
C21_Witness ==
    /\ run.status = "ok"
    /\ run.before.edits = << [op |-> "touch", doc |-> 1, kind |-> "thumbnail"] >>
    /\ \E i \in ThumbnailChecks(run) :
          /\ run.checks[i].who = <<1, "thumbnail">>
          /\ run.checks[i].present
          /\ run.checks[i].perform_copy
          /\ Size(run.checks[i].source.content) = Size(run.checks[i].target.content)

----------------------------------------------------------------------------
(* Properties of the allocation of names over the runs *)

\* An export run after another one, over the same documents: no document was
\* deleted in between (the naming options are those of cfg in every run).
SameRecords ==
    /\ ExportStep /\ run.status # "none"
    /\ \A i \in DOMAIN edits : edits[i].op # "delete"

(* C22: an export run processes the documents in ascending id; and of two runs
   over the same documents with the same naming options, the second gives every
   document it comes to the base name and the entry paths the first gave it, in
   the same order (a run that fails stops early: the two agree as far as both
   got, and two successful runs agree on all documents). *)
C22_DeterministicAllocation ==
    [][/\ ExportStep =>
            \A i, j \in DOMAIN run'.processed :
                i < j => run'.processed[i] < run'.processed[j]
       /\ SameRecords =>
            /\ \A i \in DOMAIN run.processed \cap DOMAIN run'.processed :
                  /\ run'.processed[i] = run.processed[i]
                  /\ run'.exported_files[i] = run.exported_files[i]
                  /\ EntryPaths(run'.document_manifest[i])
                        = EntryPaths(run.document_manifest[i])
            /\ (run.status = "ok" /\ run'.status = "ok")
                  => /\ run'.exported_files = run.exported_files
                     /\ run'.processed = run.processed]_vars

\* Two successful runs over two documents that ask for the same name.
C22_Witness ==
    /\ run.status = "ok" /\ run.before.status = "ok"
    /\ \A i \in DOMAIN run.before.edits : run.before.edits[i].op # "delete"
    /\ run.processed = <<1, 2>>
    /\ run.counters = <<0, 1>>
    /\ run.exported_files[1] # run.exported_files[2]

\* The kinds of file an export run writes for a document.
FileKinds == Kinds \cup {"manifest"}

\* The path, relative to the target, of the file of kind k of the i-th document
\* of a run; NoName if the run writes none.
FilePath(report, i, k) ==
    IF k = "manifest"
    THEN IF report.o.split_manifest
         THEN manifest_name(report.o, report.exported_files[i])
         ELSE NoName
    ELSE EntryPath(report.document_manifest[i], k)

(* C23: within one export run, the files of two different (document, kind)
   pairs, kind an original, a thumbnail, an archive or a per-document manifest,
   have different paths, and none is manifest.json or version.json. *)
C23_DistinctPaths ==
    run.status # "none" =>
        \A i, j \in DOMAIN run.document_manifest :
            \A k1, k2 \in FileKinds :
                FilePath(run, i, k1) # NoName =>
                    /\ FilePath(run, i, k1) \notin {<<"manifest.json">>, <<"version.json">>}
                    /\ <<i, k1>> # <<j, k2>>
                          => FilePath(run, i, k1) # FilePath(run, j, k2)

----------------------------------------------------------------------------
(* Properties of the removal of directories *)

\* Directory a of the export directory holds a file or a directory.
Holds(files, directories, a) ==
    \E q \in DOMAIN files \cup directories :
        Len(q) > Len(a) /\ SubSeq(q, 1, Len(a)) = a

(* C24: after a successful run with --delete, every file and directory left
   has its directories (no directory that holds something was removed), the
   export directory itself is there, every directory removed is an ancestor of
   a file the run removed, and no ancestor of a removed file is left empty,
   for one stale file and for several that share ancestors. *)
C24_EmptyDirectoriesRemoved ==
    [][(ExportStep /\ run'.status = "ok" /\ run'.o.delete) =>
         /\ target_dir'.exists
         /\ \A q \in DOMAIN fs' \cup dirs' : AncestorDirs(q) \subseteq dirs'
         /\ \A a \in dirs \ dirs' :
               \E f \in run'.removed : a \in AncestorDirs(f)
         /\ \A f \in run'.removed :
               /\ f \notin DOMAIN fs'
               /\ \A a \in AncestorDirs(f) : a \in dirs' => Holds(fs', dirs', a)]_vars

\* Two files that share a directory are removed, and the directory with them;
\* another directory, which holds the files of another document, stays.
C24_Witness ==
    /\ run.status = "ok" /\ run.o.delete
    /\ \E f, g \in run.removed :
          /\ f # g
          /\ Len(f) = 2 /\ Len(g) = 2
          /\ SubSeq(f, 1, 1) = SubSeq(g, 1, 1)
          /\ SubSeq(f, 1, 1) \notin dirs
    /\ \E a \in dirs : Holds(fs, dirs, a)

----------------------------------------------------------------------------
(* Properties of the signals during an import *)

\* The saves of kind op an import run made.
EventsOf(report, op) == { i \in DOMAIN report.events : report.events[i].op = op }

(* C25, as the claim states it: the loads of an import run are made with the
   receivers of post_save and m2m_changed disconnected, and the save of each
   document after its files are restored is made with them connected again. *)
C25_SaveWithTriggers ==
    [][ImportStep =>
         /\ \A i \in EventsOf(imp', "loaddata") : imp'.events[i].connected = {}
         /\ \A i \in EventsOf(imp', "save") : imp'.events[i].connected = Signals]_vars

(* C25, amended: the loads of an import run and the save of each document
   after its files are restored are all made with the receivers of post_save
   and m2m_changed disconnected; the receivers are connected again when the run
   ends, by success or by an exception. *)
C25_TriggersSuppressed ==
    [][ImportStep =>
         /\ \A i \in DOMAIN imp'.events : imp'.events[i].connected = {}
         /\ imp'.connected = Signals
         /\ imp'.status = "ok" =>
               /\ EventsOf(imp', "loaddata") # {}
               /\ Cardinality(EventsOf(imp', "save")) = Len(imp'.processed)]_vars

\* An import that has loaded, restored and saved every document.
C25_Witness ==
    /\ imp.status = "ok"
    /\ Len(imp.processed) = MaxDocs
    /\ Cardinality(EventsOf(imp, "save")) = MaxDocs
    /\ \A i \in EventsOf(imp, "save") : imp.events[i].connected = {}
    /\ imp.connected = Signals

----------------------------------------------------------------------------
(* Properties of an import from a directory with files missing *)

\* The entry names an original, an archive or a thumbnail that is not there.
Missing(files, entry) ==
    \E key \in {"EXPORTER_FILE_NAME", "EXPORTER_ARCHIVE_NAME",
                "EXPORTER_THUMBNAIL_NAME"} :
       entry[key] # NoName /\ entry[key] \notin DOMAIN files

(* C26: an import that aborts because a Document entry of its manifests names
   an original, an archive or a thumbnail that is not in the source directory
   aborts before anything is changed: no row is loaded and no payload copied. *)
C26_AbortBeforeMutation ==
    [][(/\ ImportStep
        /\ <<"manifest.json">> \in DOMAIN fs
        /\ \E entry \in SourceEntries(fs) : Missing(fs, entry)
        /\ imp'.status \in {"CommandError", "FileNotFoundError"})
       => /\ imp'.processed = << >>
          /\ docs' = docs /\ comments' = comments /\ media' = media]_vars

----------------------------------------------------------------------------
(* Properties of the manifest files under --delete *)

(* C27: after an export run with --delete that completes, every manifest file
   the run wrote is in the target directory: manifest.json, version.json and,
   with --split-manifest, the manifest of every Document, whether the target
   was given as an absolute or as a relative path and whether or not the files
   were there when the run started. *)
C27_ManifestsSurvivePruning ==
    [][(ExportStep /\ run'.o.delete /\ run'.status = "ok")
       => /\ {<<"manifest.json">>, <<"version.json">>} \subseteq DOMAIN fs'
          /\ \A i \in DOMAIN run'.manifests : run'.manifests[i].p \in DOMAIN fs']_vars

----------------------------------------------------------------------------
(* Properties of the exported content *)

\* The file at path p of the directory has the content of the payload.
SameContent(files, p, payload) ==
    p \in DOMAIN files /\ payload.exists /\ files[p].content = payload.content

(* C28: after every successful export run, over whatever the target directory
   held, every payload file the manifest names for a plain document has the
   content of that document's payload in the media directory, with and without
   --compare-checksums. *)
C28_ExportedContentCurrent ==
    [][(ExportStep /\ run'.status = "ok")
       => \A i \in DOMAIN run'.processed :
             LET pk == run'.processed[i]
             IN  docs[pk].storage_type = STORAGE_TYPE_UNENCRYPTED
                 => \A k \in Kinds :
                       FilePath(run', i, k) # NoName
                       => SameContent(fs', FilePath(run', i, k), media[pk][k])]_vars

----------------------------------------------------------------------------
(* Properties of a failed export run *)

\* The documents of a run that came before the one it stopped at.
Earlier(report) == 1..(Len(report.processed) - 1)

(* C29: an export run that fails removes nothing and writes neither
   manifest.json nor version.json: every file that was in the target directory
   when the run started is still there, the payload files written for the
   documents before the failing one are there, and a manifest.json and a
   version.json of an earlier run are as they were. *)
C29_FailedRunKeepsFiles ==
    [][(ExportStep /\ run'.status # "ok")
       => /\ run'.removed = {}
          /\ ~run'.manifest_written
          /\ WritesTo(run', <<"manifest.json">>) = << >>
          /\ WritesTo(run', <<"version.json">>) = << >>
          /\ DOMAIN fs \subseteq DOMAIN fs'
          /\ dirs \subseteq dirs'
          /\ \A p \in {<<"manifest.json">>, <<"version.json">>} \cap DOMAIN fs :
                fs'[p] = fs[p]
          /\ \A i \in Earlier(run') : \A k \in Kinds :
                FilePath(run', i, k) # NoName => FilePath(run', i, k) \in DOMAIN fs']_vars

\* A run with --delete has failed at its second document, after a successful
\* run: the file of the first document and the old manifest.json are there.
C29_Witness ==
    /\ run.status \notin {"none", "ok"}
    /\ run.before.status = "ok"
    /\ run.o.delete
    /\ Len(run.processed) = 2
    /\ FilePath(run, 1, "original") \in DOMAIN fs
    /\ <<"manifest.json">> \in DOMAIN fs
    /\ Len(DocumentEntries(fs[<<"manifest.json">>].entries)) = 2

----------------------------------------------------------------------------
(* document_exporter: handle() called again on the same Command object *)

\* self.files_in_export_dir as a run left it.
LeftInSnapshot(report) ==
    IF "files_in_export_dir" \in DOMAIN report THEN report.files_in_export_dir
    ELSE SetToBag(report.stale)

\* The Command object of an earlier run in front of the export directory:
\* __init__ made its two lists, and neither handle() nor dump() empties them.
SameCommand(report, files, directories) ==
    [NewCommand(files, directories) EXCEPT
        !.files_in_export_dir = LeftInSnapshot(report),
        !.exported_files = report.exported_files]

\* command.handle(target=..., ...) on the Command object of the last run.
HandleAgain(compare_checksums, delete) ==
    /\ nruns < MaxRuns
    /\ run.status # "none"
    /\ target_dir.exists /\ target_dir.writable
    /\ lock = 0
    /\ \E o \in {Options(cfg, compare_checksums, delete)} :
       \E done \in {dump(SameCommand(run, fs, dirs), o, docs, comments, media)} :
           /\ fs' = done.fs
           /\ dirs' = done.dirs
           /\ run' = [ status |-> IF done.error = "" THEN "ok" ELSE done.error,
                       n |-> nruns + 1,
                       o |-> o,
                       processed |-> done.processed,
                       exported_files |-> done.exported_files,
                       files_in_export_dir |-> done.files_in_export_dir,
                       stale |-> BagToSet(done.files_in_export_dir),
                       removed |-> done.removed,
                       manifest_written |-> done.manifest_written,
                       carried |-> Len(run.exported_files) ]
    /\ edits' = << >>
    /\ nruns' = nruns + 1
    /\ UNCHANGED <<docs, comments, media, cfg, nedits, saved, imp>>
    /\ UNCHANGED handleVars

NextReuse ==
    \/ Edit
    \/ \E compare_checksums \in BOOLEAN, delete \in BOOLEAN :
          Export(compare_checksums, delete)
    \/ \E compare_checksums \in BOOLEAN, delete \in BOOLEAN :
          HandleAgain(compare_checksums, delete)

SpecReuse == Init /\ [][NextReuse]_vars

\* A step that is a run of handle() on the Command object of the run before.
ReuseStep == ExportStep /\ "carried" \in DOMAIN run'

\* The base names the run of a report allocated itself.
Allocated(report) ==
    IF "carried" \in DOMAIN report
    THEN SubSeq(report.exported_files, report.carried + 1, Len(report.exported_files))
    ELSE report.exported_files

(* C30: a run of handle() on the Command object of an earlier run allocates the
   base names, and is left with the stale files, that a run by a new Command
   object allocates and is left with on the same store and target directory. *)
C30_RunStartsEmpty ==
    [][ReuseStep =>
         LET fresh == dump(NewCommand(fs, dirs), run'.o, docs, comments, media)
         IN  /\ Allocated(run') = fresh.exported_files
             /\ run'.stale = BagToSet(fresh.files_in_export_dir)]_vars

----------------------------------------------------------------------------
(* Properties of the signals on the exits of an import *)

\* The ways an import run ends after its manifest was validated.
ExitPaths == {"ok", "IntegrityError", "FileExistsError", "FileNotFoundError",
              "DoesNotExist"}

(* C31: when an import run ends, the receivers of post_save and of m2m_changed
   are both connected, whether the run succeeded, failed in the load, found a
   file at a canonical path or failed otherwise while restoring; and every load
   of a manifest file was made with both receivers disconnected. A run that got
   past the validation made at least one load. *)
C31_SignalsReconnected ==
    [][ImportStep =>
         /\ {"post_save", "m2m_changed"} \subseteq imp'.connected
         /\ \A i \in EventsOf(imp', "loaddata") :
               imp'.events[i].connected \cap {"post_save", "m2m_changed"} = {}
         /\ imp'.status \in ExitPaths \/ imp'.status = "CommandError"
         /\ imp'.status \in ExitPaths => EventsOf(imp', "loaddata") # {}
         /\ imp'.status = "CommandError" => imp'.events = << >>]_vars

\* An import has ended on a file found at a canonical path, after the load, and
\* the receivers are connected.
C31_Witness ==
    /\ imp.status = "FileExistsError"
    /\ EventsOf(imp, "loaddata") # {}
    /\ EventsOf(imp, "save") = {}
    /\ imp.connected = Signals

----------------------------------------------------------------------------
(* Properties of the manifest files that runs without --delete leave *)

\* The places of the Document entries in the manifest files the importer reads
\* from a directory: manifest.json and every file named *-manifest.json.
DocumentPlaces(files) ==
    { place \in UNION { {<<p, i>> : i \in DOMAIN files[p].entries} :
                          p \in ManifestFiles(files) } :
        IsDocument(files[place[1]].entries[place[2]]) }

\* A successful export run without --delete, on a directory that only
\* successful runs without --delete have written to.
OnlySuccessfulRuns ==
    /\ ExportStep
    /\ run'.status = "ok" /\ ~run'.o.delete
    /\ run.status \in {"none", "ok"}
    /\ run.status = "ok" => ~run.o.delete

(* C32: in a directory written by successful export runs without --delete, the
   store changing between the runs, the manifest the importer puts together
   has at most one Document entry for an id, and only entries of Documents that
   were in the store at the last run. *)
C32_CombinedManifestCurrent ==
    [][OnlySuccessfulRuns =>
         /\ \A a, b \in DocumentPlaces(fs') :
               fs'[a[1]].entries[a[2]].pk = fs'[b[1]].entries[b[2]].pk => a = b
         /\ \A a \in DocumentPlaces(fs') :
               fs'[a[1]].entries[a[2]].pk \in DOMAIN docs]_vars

----------------------------------------------------------------------------
(* Documents added and renamed between runs *)

\* The titles of the documents of this model.
Titles == { key.title : key \in NameKeys }

\* Document.objects.create(...): the new row takes the next id after the
\* greatest of the store, and its files come into the media directory.
AddDocument(key, storage_type, has_archive_version) ==
    /\ nruns < MaxRuns
    /\ \E d \in {Max(DOMAIN docs \cup {0}) + 1} :
          /\ d \in DocIds
          /\ docs' = [x \in DOMAIN docs \cup {d} |->
                        IF x = d
                        THEN NewDocument(d, key, storage_type, has_archive_version)
                        ELSE docs[x]]
          /\ media' = [media EXCEPT
                         ![d] = NewPayloads(d, NewDocument(d, key, storage_type,
                                                           has_archive_version))]
          /\ edits' = Append(edits, [op |-> "add", doc |-> d])
    /\ UNCHANGED <<comments, fs, dirs, cfg, run, nruns, nedits, saved, imp>>
    /\ UNCHANGED handleVars

\* document.title = title; document.save()
RenameDocument(d, title) ==
    /\ d \in DOMAIN docs
    /\ title # docs[d].title
    /\ docs' = [docs EXCEPT ![d].title = title]
    /\ UNCHANGED <<comments, media>>
    /\ Edited([op |-> "rename", doc |-> d])

NextAdd ==
    \/ Edit
    \/ \E compare_checksums \in BOOLEAN, delete \in BOOLEAN :
          Export(compare_checksums, delete)
    \/ \E key \in NameKeys, has_archive_version \in BOOLEAN,
          storage_type \in {STORAGE_TYPE_UNENCRYPTED, STORAGE_TYPE_GPG} :
          AddDocument(key, storage_type, has_archive_version)
    \/ \E d \in DocIds, title \in Titles : RenameDocument(d, title)

SpecAdd == Init /\ [][NextAdd]_vars

\* No edit since the last run removed, renamed or replaced document d or a
\* document of a smaller id.
Unaffected(d) ==
    \A i \in DOMAIN edits :
       edits[i].op \in {"delete", "rename", "add"} => edits[i].doc > d

(* C33: of two export runs one after the other with the same naming options, the
   second gives a document the base name the first gave it, unless the
   document, or a document of a smaller id, was removed or renamed in between:
   documents added with greater ids, and every other change to the store,
   leave the names of the documents before them as they were. *)
C33_AddingKeepsNames ==
    [][(ExportStep /\ run.status # "none")
       => \A i \in DOMAIN run.processed : \A j \in DOMAIN run'.processed :
             (run.processed[i] = run'.processed[j] /\ Unaffected(run.processed[i]))
             => run'.exported_files[j] = run.exported_files[i]]_vars

\* A document was added after a run to a store whose document has its name:
\* in the next run the new one takes the counter and the old one keeps its name.
C33_Witness ==
    /\ run.status = "ok" /\ run.n = 2
    /\ run.before.status = "ok"
    /\ run.before.edits = <<[op |-> "add", doc |-> 2]>>
    /\ run.processed = <<1, 2>>
    /\ run.counters = <<0, 1>>

====
